---- MODULE Spec2Model ----
(***************************************************************************)
(* Model of the POI -> City knowledge-graph pipeline.                      *)
(*   - "main (not good).py": to_dbpedia_uri, resolve_redirect,             *)
(*     get_sameas_links, is_city_wikidata, link_poi_to_city,               *)
(*     create_poi_city_triples and the module-level loop and merge.        *)
(*   - test.py: parse_category_uri and build_kg.                           *)
(* Strings are sequences of code points; the two SPARQL                    *)
(* endpoints are the variables dbRedirects, dbSameAs, wdCities,            *)
(* wdMapping and wdHierarchy, chosen by Init and never changed.            *)
(***************************************************************************)
EXTENDS Integers, Sequences, FiniteSets, TLC

VARIABLES
    \* ---- the endpoints (inputs) ----
    dbRedirects,     \* DBpedia: uri -> sequence of dbo:wikiPageRedirects bindings
    dbSameAs,        \* DBpedia: uri -> sequence of DISTINCT owl:sameAs bindings
    wdCities,        \* Wikidata: set of uris for which the ASK query is true
    \* ---- main (not good).py, module level ----
    locations,       \* the list iterated by the module-level loop
    pc,              \* position of the script
    loc_idx,         \* index of the location being processed
    graphs,          \* list of per-location graphs
    final_graph,     \* [bound, triples]: the name final_graph and its triple set
    merge_idx,       \* index of the graph merged next
    stdout,          \* sequence of printed graphs
    \* ---- link_poi_to_city locals ----
    db_uri, resolved, links, wd_links, geo_links,
    is_city, verified_wd_uri, verified_geo_uri, wd_idx, info,
    queries,         \* log of queries issued for the current location
    \* ---- resolve_redirect applied repeatedly ----
    rr_trace,
    \* ---- test.py: parse_category_uri ----
    category_uri, parsed,
    \* ---- test.py: build_kg ----
    wdMapping,       \* DBpedia: poi uri -> sequence of Wikidata sameAs bindings
    wdHierarchy,     \* Wikidata: uri -> sequence of (super, superLabel) bindings
    df,              \* the rows handed to build_kg
    kg_pc, row_idx, g, row_added, kg

endpointVars == <<dbRedirects, dbSameAs, wdCities>>
mainVars == <<locations, pc, loc_idx, graphs, final_graph, merge_idx, stdout>>
linkVars == <<db_uri, resolved, links, wd_links, geo_links, is_city,
              verified_wd_uri, verified_geo_uri, wd_idx, info, queries>>
parseVars == <<category_uri, parsed>>
kgVars == <<wdMapping, wdHierarchy, df, kg_pc, row_idx, g, row_added, kg>>
vars == <<endpointVars, mainVars, linkVars, rr_trace, parseVars, kgVars>>

(***************************************************************************)
(* Bounds                                                                  *)
(***************************************************************************)
MaxLinks == 3        \* longest owl:sameAs result
MaxBindings == 2     \* longest dbo:wikiPageRedirects result
MaxLocations == 2    \* longest locations list
MaxApply == 3        \* applications of resolve_redirect in a row
MaxPairs == 2        \* longest list of (POI, category) pairs
MaxHierarchy == 3    \* longest type-hierarchy result

(***************************************************************************)
(* Python values                                                           *)
(***************************************************************************)
None == <<>>
Some(x) == <<x>>
\* truth value of an Optional[str]: None and "" are false
Truthy(opt) == opt # None /\ Len(opt[1]) > 0

(***************************************************************************)
(* Python str: a string is the sequence of its code points, so that every  *)
(* character of a str has a value here; U("...") is the str of an ASCII    *)
(* literal                                                                 *)
(***************************************************************************)
\* the printable ASCII characters U+0020 to U+005F and U+0061 to U+007E
AsciiUpTo95 == " !\"#$%&'()*+,-./0123456789:;<=>?@ABCDEFGHIJKLMNOPQRSTUVWXYZ[\\]^_"
AsciiFrom97 == "abcdefghijklmnopqrstuvwxyz{|}~"

\* ord(c) of the characters a literal of this module is written with
ord ==
    [c \in {SubSeq(AsciiUpTo95, i, i) : i \in 1..Len(AsciiUpTo95)}
           \cup {SubSeq(AsciiFrom97, i, i) : i \in 1..Len(AsciiFrom97)}
           \cup {"\t", "\n", "\f", "\r"} |->
        CASE c = "\t" -> 9
          [] c = "\n" -> 10
          [] c = "\f" -> 12
          [] c = "\r" -> 13
          [] \E i \in 1..Len(AsciiUpTo95) : SubSeq(AsciiUpTo95, i, i) = c ->
                31 + CHOOSE i \in 1..Len(AsciiUpTo95) : SubSeq(AsciiUpTo95, i, i) = c
          [] OTHER ->
                96 + CHOOSE i \in 1..Len(AsciiFrom97) : SubSeq(AsciiFrom97, i, i) = c]

U(literal) == [i \in 1..Len(literal) |-> ord[SubSeq(literal, i, i)]]

(***************************************************************************)
(* String helpers (str.strip, str.replace, the substring test)             *)
(***************************************************************************)
\* the characters str.strip() removes, those for which str.isspace() is true
IsWhitespace(c) ==
    c \in (9..13) \cup (28..32) \cup {133, 160, 5760} \cup (8192..8202)
          \cup {8232, 8233, 8239, 8287, 12288}

RECURSIVE lstrip(_)
lstrip(s) == IF Len(s) > 0 /\ IsWhitespace(s[1])
             THEN lstrip(SubSeq(s, 2, Len(s))) ELSE s

RECURSIVE rstrip(_)
rstrip(s) == IF Len(s) > 0 /\ IsWhitespace(s[Len(s)])
             THEN rstrip(SubSeq(s, 1, Len(s) - 1)) ELSE s

strip(s) == rstrip(lstrip(s))

\* s.replace(old, new) for a one-character old
RECURSIVE replace(_, _, _)
replace(s, old, new) ==
    IF Len(s) = 0 THEN U("")
    ELSE (IF SubSeq(s, 1, 1) = old THEN new ELSE SubSeq(s, 1, 1))
         \o replace(SubSeq(s, 2, Len(s)), old, new)

\* sub in s
Contains(sub, s) ==
    \E i \in 1..(Len(s) - Len(sub) + 1) : SubSeq(s, i, i + Len(sub) - 1) = sub

Range(seq) == {seq[i] : i \in 1..Len(seq)}
Min(S) == CHOOSE m \in S : \A n \in S : m <= n

(***************************************************************************)
(* STEP 1: to_dbpedia_uri                                                  *)
(***************************************************************************)
to_dbpedia_uri(location_string) ==
    U("http://dbpedia.org/resource/") \o replace(strip(location_string), U(" "), U("_"))

(***************************************************************************)
(* STEP 2: resolve_redirect                                                *)
(***************************************************************************)
RedirectBindings(uri) ==
    IF uri \in DOMAIN dbRedirects THEN dbRedirects[uri] ELSE <<>>

\* the function taking the last binding instead of bindings[0]
resolve_redirect_Last(uri) ==
    LET bindings == RedirectBindings(uri)
    IN IF bindings # <<>> THEN bindings[Len(bindings)] ELSE uri

\* lines 27-37
resolve_redirect(uri) ==
    LET bindings == RedirectBindings(uri)
    IN IF bindings # <<>> THEN bindings[1] ELSE uri

(***************************************************************************)
(* STEP 3: get_sameas_links                                                *)
(***************************************************************************)
get_sameas_links(dbpedia_uri) ==
    IF dbpedia_uri \in DOMAIN dbSameAs THEN dbSameAs[dbpedia_uri] ELSE <<>>

(***************************************************************************)
(* STEP 4: is_city_wikidata                                                *)
(***************************************************************************)
is_city_wikidata(wd_uri) == wd_uri \in wdCities

(***************************************************************************)
(* STEP 5: the pieces of link_poi_to_city                                  *)
(***************************************************************************)
IsWikidataLink(l) == Contains(U("wikidata.org/entity"), l)
IsGeoNamesLink(l) == Contains(U("geonames.org"), l)

\* the list comprehensions of lines 77 and 79
WdLinks(ls) == SelectSeq(ls, IsWikidataLink)
GeoLinks(ls) == SelectSeq(ls, IsGeoNamesLink)

\* the GeoNames choice without the exclusion test of line 98
ChooseGeoNames_NoExclusion(geos, excluded) ==
    IF geos = <<>> THEN None ELSE Some(geos[1])

\* lines 94-100: the first geo_uri with geo_uri != verified_wd_uri
RECURSIVE ChooseGeoNames(_, _)
ChooseGeoNames(geos, excluded) ==
    IF geos = <<>> THEN None
    ELSE IF Some(geos[1]) # excluded THEN Some(geos[1])
    ELSE ChooseGeoNames(Tail(geos), excluded)

\* lines 82-90: the first wd_uri for which is_city_wikidata is true
RECURSIVE FirstVerifiedCity(_)
FirstVerifiedCity(wds) ==
    IF wds = <<>> THEN None
    ELSE IF is_city_wikidata(wds[1]) THEN Some(wds[1])
    ELSE FirstVerifiedCity(Tail(wds))

\* the dict link_poi_to_city returns when no query fails
link_poi_to_city(location_string) ==
    LET r == resolve_redirect(to_dbpedia_uri(location_string))
        ls == get_sameas_links(r)
        wd == FirstVerifiedCity(WdLinks(ls))
    IN [location_string |-> location_string,
        dbpedia_uri |-> r,
        wikidata_uri |-> wd,
        geonames_uri |-> ChooseGeoNames(GeoLinks(ls), wd),
        is_city |-> wd # None]

(***************************************************************************)
(* rdflib terms and graphs: a graph is a set of triples <<s, p, o>>        *)
(***************************************************************************)
URIRef(u) == <<"URIRef", u, U("")>>
Literal(lexical, datatype) == <<"Literal", lexical, datatype>>
XSD_boolean == U("http://www.w3.org/2001/XMLSchema#boolean")
BoolLiteral(b) == Literal(IF b THEN U("true") ELSE U("false"), XSD_boolean)
RDF_type == URIRef(U("http://www.w3.org/1999/02/22-rdf-syntax-ns#type"))
OWL_sameAs == URIRef(U("http://www.w3.org/2002/07/owl#sameAs"))
EX(name) == URIRef(U("http://example.org/ontology/") \o name)

\* a merge that rebinds instead of adding
GraphIAdd_Overwrite(self, other) == other

\* Graph.__iadd__: add every triple of other to self
GraphIAdd(self, other) == self \cup other

(***************************************************************************)
(* STEP 6: create_poi_city_triples                                         *)
(***************************************************************************)
\* the function with the GeoNames sameAs triple of lines 136-137 left out
create_poi_city_triples_NoGeo(poi_uri, type_string, location_info) ==
    LET poi == URIRef(poi_uri)
        city == URIRef(location_info.dbpedia_uri)
    IN {<<poi, RDF_type, EX(type_string)>>,
        <<poi, EX(U("locatedIn")), city>>,
        <<poi, EX(U("typeString")), Literal(type_string, U(""))>>,
        <<poi, EX(U("locationString")), Literal(location_info.location_string, U(""))>>,
        <<city, RDF_type, EX(U("City"))>>,
        <<city, EX(U("isVerifiedCity")), BoolLiteral(location_info.is_city)>>}
       \cup (IF Truthy(location_info.wikidata_uri)
             THEN {<<city, OWL_sameAs, URIRef(location_info.wikidata_uri[1])>>}
             ELSE {})

create_poi_city_triples(poi_uri, type_string, location_info) ==
    LET poi == URIRef(poi_uri)
        city == URIRef(location_info.dbpedia_uri)
    IN {<<poi, RDF_type, EX(type_string)>>,
        <<poi, EX(U("locatedIn")), city>>,
        <<poi, EX(U("typeString")), Literal(type_string, U(""))>>,
        <<poi, EX(U("locationString")), Literal(location_info.location_string, U(""))>>,
        <<city, RDF_type, EX(U("City"))>>,
        <<city, EX(U("isVerifiedCity")), BoolLiteral(location_info.is_city)>>}
       \cup (IF Truthy(location_info.wikidata_uri)
             THEN {<<city, OWL_sameAs, URIRef(location_info.wikidata_uri[1])>>}
             ELSE {})
       \cup (IF Truthy(location_info.geonames_uri)
             THEN {<<city, OWL_sameAs, URIRef(location_info.geonames_uri[1])>>}
             ELSE {})

(***************************************************************************)
(* Input universes                                                         *)
(***************************************************************************)
\* <<32, 12, 8232>> is " \f\u2028" and <<8195>>, <<160>> are "\u2003", "\u00a0":
\* whitespace that str.strip() removes
LocationStrings ==
    {U(""), <<32, 12, 8232>>, U("Rome"), <<8195>> \o U(" Rome") \o <<160>>,
     U("Roma"), U("New York")}

W1 == U("http://www.wikidata.org/entity/Q220")
W2 == U("http://www.wikidata.org/entity/Q2277")
G1 == U("http://sws.geonames.org/3169070/")
B1 == U("http://www.wikidata.org/entity/Q1?src=geonames.org")
O1 == U("http://viaf.org/viaf/1")
LinkURIs == {W1, W2, G1, B1, O1}

\* duplicate-free sequences over S of length <= n (a SELECT DISTINCT result)
DistinctSeqs(S, n) ==
    UNION {{q \in [1..k -> S] : \A i, j \in 1..k : i # j => q[i] # q[j]} : k \in 0..n}

SeqsUpTo(S, n) == UNION {[1..k -> S] : k \in 0..n}

NoRedirects == [u \in {} |-> <<>>]
RedirectChain ==
    [u \in {U("http://dbpedia.org/resource/Roma"), U("http://dbpedia.org/resource/Rome")} |->
        IF u = U("http://dbpedia.org/resource/Roma")
        THEN <<U("http://dbpedia.org/resource/Rome")>>
        ELSE <<U("http://dbpedia.org/resource/Eternal_City"), U("http://dbpedia.org/resource/Roma")>>]
RedirectScenarios == {NoRedirects, RedirectChain}

(***************************************************************************)
(* Initial values of the parts a specification does not exercise           *)
(***************************************************************************)
LinkLocalsInit ==
    /\ db_uri = U("") /\ resolved = U("") /\ links = <<>>
    /\ wd_links = <<>> /\ geo_links = <<>>
    /\ is_city = FALSE /\ verified_wd_uri = None /\ verified_geo_uri = None
    /\ wd_idx = 1 /\ info = None /\ queries = <<>>

MainInit ==
    /\ pc = "loop" /\ loc_idx = 0 /\ graphs = <<>>
    /\ final_graph = [bound |-> FALSE, triples |-> {}]
    /\ merge_idx = 1 /\ stdout = <<>>
    /\ LinkLocalsInit

MainIdle ==
    /\ dbRedirects = NoRedirects /\ dbSameAs = [u \in {} |-> <<>>] /\ wdCities = {}
    /\ locations = <<>> /\ MainInit

ResolveIdle == rr_trace = <<>>

ParseIdle == category_uri = U("") /\ parsed = <<>>

KGIdle ==
    /\ wdMapping = [u \in {} |-> <<>>] /\ wdHierarchy = [u \in {} |-> <<>>]
    /\ df = <<>> /\ kg_pc = "idle" /\ row_idx = 0 /\ g = {} /\ row_added = {}
    /\ kg = [bound |-> FALSE, triples |-> {}]

(***************************************************************************)
(* STEP 7 and STEP 5 as steps: the module-level loop of                    *)
(* "main (not good).py", one action per stretch of code between queries    *)
(***************************************************************************)
CurrentLocation == locations[loc_idx]

\* lines 148-149 and 73: next loc, link_poi_to_city starts
StartLocation ==
    /\ pc = "loop" /\ loc_idx < Len(locations)
    /\ loc_idx' = loc_idx + 1
    /\ db_uri' = to_dbpedia_uri(locations[loc_idx + 1])
    /\ resolved' = U("") /\ links' = <<>> /\ wd_links' = <<>> /\ geo_links' = <<>>
    /\ is_city' = FALSE /\ verified_wd_uri' = None /\ verified_geo_uri' = None
    /\ wd_idx' = 1 /\ info' = None /\ queries' = <<>>
    /\ pc' = "resolve"
    /\ UNCHANGED <<endpointVars, locations, graphs, final_graph, merge_idx, stdout,
                   rr_trace, parseVars, kgVars>>

\* line 74: resolved = resolve_redirect(db_uri)
ResolveRedirect ==
    /\ pc = "resolve"
    /\ queries' = Append(queries, <<"redirect", db_uri>>)
    /\ resolved' = resolve_redirect(db_uri)
    /\ pc' = "sameas"
    /\ UNCHANGED <<endpointVars, locations, loc_idx, graphs, final_graph, merge_idx,
                   stdout, db_uri, links, wd_links, geo_links, is_city,
                   verified_wd_uri, verified_geo_uri, wd_idx, info,
                   rr_trace, parseVars, kgVars>>

\* lines 75-83: the sameAs query, the two filters, the loop variables
GetSameAs ==
    /\ pc = "sameas"
    /\ queries' = Append(queries, <<"sameas", resolved>>)
    /\ links' = get_sameas_links(resolved)
    /\ wd_links' = WdLinks(links')
    /\ geo_links' = GeoLinks(links')
    /\ is_city' = FALSE /\ verified_wd_uri' = None /\ wd_idx' = 1
    /\ pc' = "verify"
    /\ UNCHANGED <<endpointVars, locations, loc_idx, graphs, final_graph, merge_idx,
                   stdout, db_uri, resolved, verified_geo_uri, info,
                   rr_trace, parseVars, kgVars>>

\* the loop iteration without the break of line 90
VerifyCandidate_NoBreak ==
    /\ pc = "verify" /\ wd_idx <= Len(wd_links)
    /\ LET wd_uri == wd_links[wd_idx]
       IN /\ queries' = Append(queries, <<"is_city", wd_uri>>)
          /\ IF is_city_wikidata(wd_uri)
             THEN /\ is_city' = TRUE
                  /\ verified_wd_uri' = Some(wd_uri)
             ELSE UNCHANGED <<is_city, verified_wd_uri>>
          /\ wd_idx' = wd_idx + 1
          /\ UNCHANGED pc
    /\ UNCHANGED <<endpointVars, locations, loc_idx, graphs, final_graph, merge_idx,
                   stdout, db_uri, resolved, links, wd_links, geo_links,
                   verified_geo_uri, info, rr_trace, parseVars, kgVars>>

\* lines 86-90: one iteration of the for loop over wd_links
VerifyCandidate ==
    /\ pc = "verify" /\ wd_idx <= Len(wd_links)
    /\ LET wd_uri == wd_links[wd_idx]
       IN /\ queries' = Append(queries, <<"is_city", wd_uri>>)
          /\ IF is_city_wikidata(wd_uri)
             THEN /\ is_city' = TRUE
                  /\ verified_wd_uri' = Some(wd_uri)
                  /\ pc' = "geo"
                  /\ UNCHANGED wd_idx
             ELSE /\ wd_idx' = wd_idx + 1
                  /\ UNCHANGED <<is_city, verified_wd_uri, pc>>
    /\ UNCHANGED <<endpointVars, locations, loc_idx, graphs, final_graph, merge_idx,
                   stdout, db_uri, resolved, links, wd_links, geo_links,
                   verified_geo_uri, info, rr_trace, parseVars, kgVars>>

\* lines 94-110: the GeoNames choice and the returned dict
ChooseGeo ==
    /\ \/ pc = "geo"
       \/ pc = "verify" /\ wd_idx > Len(wd_links)
    /\ verified_geo_uri' = ChooseGeoNames(geo_links, verified_wd_uri)
    /\ info' = Some([location_string |-> CurrentLocation,
                     dbpedia_uri |-> resolved,
                     wikidata_uri |-> verified_wd_uri,
                     geonames_uri |-> verified_geo_uri',
                     is_city |-> is_city])
    /\ pc' = "triples"
    /\ UNCHANGED <<endpointVars, locations, loc_idx, graphs, final_graph, merge_idx,
                   stdout, db_uri, resolved, links, wd_links, geo_links, is_city,
                   verified_wd_uri, wd_idx, queries, rr_trace, parseVars, kgVars>>

\* lines 150-151: the location's graph is built and appended
CreateTriples ==
    /\ pc = "triples"
    /\ graphs' = Append(graphs,
                    create_poi_city_triples(
                        U("http://dbpedia.org/resource/POI_in_") \o CurrentLocation,
                        U("Attraction"), info[1]))
    /\ pc' = "loop"
    /\ UNCHANGED <<endpointVars, locations, loc_idx, final_graph, merge_idx, stdout,
                   linkVars, rr_trace, parseVars, kgVars>>

\* line 154: final_graph = Graph()
StartMerge ==
    /\ pc = "loop" /\ loc_idx = Len(locations)
    /\ final_graph' = [bound |-> TRUE, triples |-> {}]
    /\ merge_idx' = 1
    /\ pc' = "merge"
    /\ UNCHANGED <<endpointVars, locations, loc_idx, graphs, stdout,
                   linkVars, rr_trace, parseVars, kgVars>>

\* lines 155-156: final_graph += g
MergeStep ==
    /\ pc = "merge" /\ merge_idx <= Len(graphs)
    /\ final_graph' = [final_graph EXCEPT
                          !.triples = GraphIAdd(final_graph.triples, graphs[merge_idx])]
    /\ merge_idx' = merge_idx + 1
    /\ UNCHANGED <<endpointVars, locations, pc, loc_idx, graphs, stdout,
                   linkVars, rr_trace, parseVars, kgVars>>

\* line 158: print(final_graph.serialize(...))
PrintGraph ==
    /\ pc = "merge" /\ merge_idx > Len(graphs)
    /\ stdout' = Append(stdout, final_graph.triples)
    /\ pc' = "done"
    /\ UNCHANGED <<endpointVars, locations, loc_idx, graphs, final_graph, merge_idx,
                   linkVars, rr_trace, parseVars, kgVars>>

\* query().convert() raises at lines 35, 50 or 67: nothing catches it, the
\* exception leaves link_poi_to_city and the module, the script ends
EndpointFailure ==
    /\ \/ pc \in {"resolve", "sameas"}
       \/ pc = "verify" /\ wd_idx <= Len(wd_links)
    /\ pc' = "aborted"
    /\ UNCHANGED <<endpointVars, locations, loc_idx, graphs, final_graph, merge_idx,
                   stdout, linkVars, rr_trace, parseVars, kgVars>>

MainNext ==
    \/ StartLocation \/ ResolveRedirect \/ GetSameAs \/ VerifyCandidate
    \/ ChooseGeo \/ CreateTriples \/ StartMerge \/ MergeStep \/ PrintGraph
    \/ EndpointFailure

\* every resolved location has the same sameAs result ls
SameAsFor(uris, ls) == [u \in uris |-> ls]

ResolvedOf(locs) == {resolve_redirect(to_dbpedia_uri(locs[i])) : i \in 1..Len(locs)}

\* one location, any sameAs result and any set of Wikidata cities
InitLink ==
    /\ locations \in [1..1 -> LocationStrings]
    /\ dbRedirects \in RedirectScenarios
    /\ \E ls \in DistinctSeqs(LinkURIs, MaxLinks) :
          dbSameAs = SameAsFor(ResolvedOf(locations), ls)
    /\ wdCities \in SUBSET {W1, W2, B1}
    /\ MainInit /\ ResolveIdle /\ ParseIdle /\ KGIdle

SpecLink == InitLink /\ [][MainNext]_vars

SameAsScenarios == {<<>>, <<W1, G1>>, <<O1, B1, W2>>}

\* several locations, a few endpoint contents
Init ==
    /\ locations \in SeqsUpTo(LocationStrings, MaxLocations)
    /\ dbRedirects \in RedirectScenarios
    /\ \E ls \in SameAsScenarios : dbSameAs = SameAsFor(ResolvedOf(locations), ls)
    /\ wdCities \in {{}, {W1}, {W2, B1}}
    /\ MainInit /\ ResolveIdle /\ ParseIdle /\ KGIdle

Next == MainNext

Spec == Init /\ [][Next]_vars

(***************************************************************************)
(* Properties of link_poi_to_city and create_poi_city_triples (SpecLink)   *)
(***************************************************************************)
Returned == info # None
Result == info[1]

\* the uris of the is_city_wikidata queries issued so far, in order
AskedCities ==
    LET asks == SelectSeq(queries, LAMBDA q : q[1] = "is_city")
    IN [i \in 1..Len(asks) |-> asks[i][2]]

\* indices of the candidates the Wikidata endpoint says are cities
CityIndices == {i \in 1..Len(wd_links) : wd_links[i] \in wdCities}

\* position of x in the duplicate-free sequence seq
IndexOf(seq, x) == CHOOSE i \in 1..Len(seq) : seq[i] = x

\* C2: the Wikidata candidates are verified in the order the sameAs query
\* returned them and the search stops at the first one that is a city: the
\* result carries that candidate with is_city true, no candidate after it is
\* queried, and with no city among them is_city is false and wikidata_uri None.
FirstMatchWins ==
    Returned =>
        /\ \A i, j \in 1..Len(wd_links) :
              i < j => IndexOf(links, wd_links[i]) < IndexOf(links, wd_links[j])
        /\ Range(wd_links) =
              {l \in Range(dbSameAs[resolved]) : Contains(U("wikidata.org/entity"), l)}
        /\ IF CityIndices = {}
           THEN /\ Result.is_city = FALSE
                /\ Result.wikidata_uri = None
                /\ AskedCities = wd_links
           ELSE /\ Result.is_city = TRUE
                /\ Result.wikidata_uri = Some(wd_links[Min(CityIndices)])
                /\ AskedCities = SubSeq(wd_links, 1, Min(CityIndices))

\* three candidates, the second and the third are cities
FirstMatchWitness ==
    /\ Returned /\ Len(wd_links) = 3
    /\ wd_links[1] \notin wdCities
    /\ wd_links[2] \in wdCities /\ wd_links[3] \in wdCities
    /\ Result.wikidata_uri = Some(wd_links[2])

\* indices of the GeoNames links that differ from the verified Wikidata uri
GeoIndices == {i \in 1..Len(geo_links) : Some(geo_links[i]) # Result.wikidata_uri}

\* C3: geonames_uri is the first entry of geo_links that differs from the
\* verified Wikidata uri, None when there is no such entry; when both uris are
\* set they differ.
GeoNamesChoice ==
    Returned =>
        /\ Range(geo_links) =
              {l \in Range(dbSameAs[resolved]) : Contains(U("geonames.org"), l)}
        /\ IF GeoIndices = {}
           THEN Result.geonames_uri = None
           ELSE Result.geonames_uri = Some(geo_links[Min(GeoIndices)])
        /\ (Result.wikidata_uri # None /\ Result.geonames_uri # None)
              => Result.geonames_uri # Result.wikidata_uri

\* the first GeoNames link is the verified Wikidata uri and is skipped
GeoNamesWitness ==
    /\ Returned /\ Len(geo_links) = 2
    /\ Some(geo_links[1]) = Result.wikidata_uri
    /\ Result.geonames_uri = Some(geo_links[2])

\* C4: no link of the sameAs result is in both wd_links and geo_links.
ExactlyOneClass ==
    \A l \in Range(links) : ~(l \in Range(wd_links) /\ l \in Range(geo_links))

\* the graph of the one location, once built
LocationGraph == graphs[1]
CityNodes == {t[1] : t \in {u \in LocationGraph : u[2] = RDF_type /\ u[3] = EX(U("City"))}}
SameAsOf(node) == {t \in LocationGraph : t[1] = node /\ t[2] = OWL_sameAs}
VerifiedFlags(node) ==
    {t[3] : t \in {u \in LocationGraph : u[1] = node /\ u[2] = EX(U("isVerifiedCity"))}}

\* C7: the graph of one location has exactly one node typed City; with one
\* Wikidata link that is a city and one GeoNames link the node has two
\* owl:sameAs triples and isVerifiedCity true; with no sameAs link it has no
\* owl:sameAs triple and isVerifiedCity false.
OneCityNode ==
    Len(graphs) = 1 =>
        /\ Cardinality(CityNodes) = 1
        /\ \A city \in CityNodes :
              /\ city = URIRef(resolved)
              /\ (/\ Len(wd_links) = 1 /\ Len(geo_links) = 1
                  /\ wd_links[1] \in wdCities /\ geo_links[1] # wd_links[1])
                    => /\ SameAsOf(city) = {<<city, OWL_sameAs, URIRef(wd_links[1])>>,
                                            <<city, OWL_sameAs, URIRef(geo_links[1])>>}
                       /\ Cardinality(SameAsOf(city)) = 2
                       /\ VerifiedFlags(city) = {BoolLiteral(TRUE)}
              /\ dbSameAs[resolved] = <<>>
                    => /\ SameAsOf(city) = {}
                       /\ VerifiedFlags(city) = {BoolLiteral(FALSE)}

\* a Wikidata city link and a GeoNames link
OneCityWitness ==
    /\ Len(graphs) = 1 /\ links = <<W1, G1>> /\ W1 \in wdCities
    /\ Cardinality(SameAsOf(URIRef(resolved))) = 2

\* C9: for a location that is empty after trimming no uri is produced and no
\* query is issued.
EmptyLocationRejected ==
    (loc_idx >= 1 /\ strip(CurrentLocation) = U("")) =>
        /\ db_uri = U("")
        /\ queries = <<>>
        /\ pc \notin {"resolve", "sameas", "verify", "geo", "triples"}

(***************************************************************************)
(* Properties of the module-level loop and merge (Spec)                    *)
(***************************************************************************)
\* C6: when a query fails while a location is processed, the accumulated
\* graph still holds every triple of the locations processed before it.
PriorGraphsSurvive ==
    pc = "aborted" =>
        \A i \in 1..Len(graphs) : graphs[i] \subseteq final_graph.triples

\* the graph of one location, from the endpoint contents alone
GraphOfLocation(l) ==
    create_poi_city_triples(U("http://dbpedia.org/resource/POI_in_") \o l, U("Attraction"),
                            link_poi_to_city(l))

\* C10: the merge is a set union: after k merges final_graph holds exactly the
\* triples of the first k graphs, so merging a graph whose triples are present
\* changes nothing, and the final triple set depends only on the set of
\* locations, not on their order or repetition.
MergeIsUnion ==
    /\ pc \in {"merge", "done"} =>
          final_graph.triples = UNION {graphs[i] : i \in 1..(merge_idx - 1)}
    /\ pc = "done" =>
          /\ final_graph.triples = UNION {GraphOfLocation(l) : l \in Range(locations)}
          /\ stdout = <<final_graph.triples>>

\* two different graphs that share triples have been merged
MergeWitness ==
    /\ pc = "done" /\ Len(graphs) = 2
    /\ graphs[1] # graphs[2] /\ graphs[1] \cap graphs[2] # {}
    /\ final_graph.triples = graphs[1] \cup graphs[2]

(***************************************************************************)
(* resolve_redirect applied repeatedly to one uri (SpecResolve)            *)
(***************************************************************************)
RedirectUris == {U("http://dbpedia.org/resource/Roma"),
                 U("http://dbpedia.org/resource/Rome"),
                 U("http://dbpedia.org/resource/Eternal_City")}

InitResolve ==
    /\ dbRedirects \in [RedirectUris -> DistinctSeqs(RedirectUris, MaxBindings)]
    /\ \E x \in RedirectUris : rr_trace = <<x>>
    /\ dbSameAs = [u \in {} |-> <<>>] /\ wdCities = {} /\ locations = <<>>
    /\ MainInit /\ ParseIdle /\ KGIdle

\* uri = resolve_redirect(uri)
ApplyResolve ==
    /\ Len(rr_trace) >= 1 /\ Len(rr_trace) <= MaxApply
    /\ rr_trace' = Append(rr_trace, resolve_redirect(rr_trace[Len(rr_trace)]))
    /\ UNCHANGED <<endpointVars, mainVars, linkVars, parseVars, kgVars>>

SpecResolve == InitResolve /\ [][ApplyResolve]_vars

\* C1 as stated: resolve_redirect(resolve_redirect(x)) = resolve_redirect(x)
\* for every uri x and every redirect relation, chains included.
ResolveIdempotent ==
    Len(rr_trace) >= 3 => rr_trace[3] = rr_trace[2]

\* C1 as amended: resolve_redirect returns the first bound target of its
\* argument, or the argument when there is none, and a second application
\* returns the same uri whenever the endpoint holds no redirect for the
\* first result.
ResolveSingleHop ==
    /\ \A i \in 1..(Len(rr_trace) - 1) :
          IF dbRedirects[rr_trace[i]] = <<>>
          THEN rr_trace[i + 1] = rr_trace[i]
          ELSE rr_trace[i + 1] = dbRedirects[rr_trace[i]][1]
    /\ \A i \in 1..(Len(rr_trace) - 2) :
          dbRedirects[rr_trace[i + 1]] = <<>> => rr_trace[i + 2] = rr_trace[i + 1]

\* a redirect with two bindings was followed to a uri without redirect
ResolveWitness ==
    /\ Len(rr_trace) >= 3
    /\ Len(dbRedirects[rr_trace[1]]) = 2
    /\ rr_trace[2] # rr_trace[1]
    /\ dbRedirects[rr_trace[2]] = <<>>
    /\ rr_trace[3] = rr_trace[2]

(***************************************************************************)
(* test.py: parse_category_uri                                             *)
(***************************************************************************)
CATEGORY_PREFIX == U("http://dbpedia.org/resource/Category:")

\* the positions k at which (.+?) can end: k characters without newline, then
\* _in_ or _of_, then at least one character that is not a newline
CategorySplits(rest) ==
    {k \in 1..(Len(rest) - 5) :
        /\ ~Contains(U("\n"), SubSeq(rest, 1, k))
        /\ SubSeq(rest, k + 1, k + 4) \in {U("_in_"), U("_of_")}
        /\ SubSeq(rest, k + 5, k + 5) # U("\n")}

\* the longest stretch of s without newline, from its start: what (.+) takes
RECURSIVE UpToNewline(_)
UpToNewline(s) ==
    IF Len(s) = 0 \/ SubSeq(s, 1, 1) = U("\n") THEN U("")
    ELSE SubSeq(s, 1, 1) \o UpToNewline(SubSeq(s, 2, Len(s)))

\* CATEGORY_REGEX.match(category_uri): None, or the groups 1 to 3
CATEGORY_REGEX_match(uri) ==
    LET n == Len(CATEGORY_PREFIX)
        rest == SubSeq(uri, n + 1, Len(uri))
    IN IF Len(uri) >= n /\ SubSeq(uri, 1, n) = CATEGORY_PREFIX /\ CategorySplits(rest) # {}
       THEN LET k == Min(CategorySplits(rest))
            IN Some(<<SubSeq(rest, 1, k),
                      SubSeq(rest, k + 2, k + 3),
                      UpToNewline(SubSeq(rest, k + 5, Len(rest)))>>)
       ELSE None

\* the function without the underscore replacement of lines 32-33
parse_category_uri_NoReplace(uri) ==
    LET m == CATEGORY_REGEX_match(uri)
    IN IF m # None THEN <<Some(m[1][1]), Some(m[1][3])>> ELSE <<None, None>>

\* lines 29-35
parse_category_uri(uri) ==
    LET m == CATEGORY_REGEX_match(uri)
    IN IF m # None
       THEN <<Some(replace(m[1][1], U("_"), U(" "))), Some(replace(m[1][3], U("_"), U(" ")))>>
       ELSE <<None, None>>

CategoryPrefixes == {U(""), U("Category:"), CATEGORY_PREFIX,
                     U("http://dbpedia.org/resource/"),
                     U("http://es.dbpedia.org/resource/Category:")}
CategoryTypes == {U(""), U("Museums"), U("Art_museums"), U("Parks_in_cities"), U("RandomPage")}
CategorySeparators == {U(""), U("_"), U("_in_"), U("_of_"), U("_at_")}
CategoryLocations == {U(""), U("Valencia"), U("New_York"), U("the_Isle_of_Man"), U("Spain\nx")}
CategoryStrings ==
    {p \o t \o sep \o l : p \in CategoryPrefixes, t \in CategoryTypes,
                          sep \in CategorySeparators, l \in CategoryLocations}

InitParse ==
    /\ category_uri \in CategoryStrings
    /\ parsed = <<>>
    /\ MainIdle /\ ResolveIdle /\ KGIdle

\* type_str, location_str = parse_category_uri(category_uri)
ParseCategory ==
    /\ parsed = <<>>
    /\ parsed' = parse_category_uri(category_uri)
    /\ UNCHANGED <<endpointVars, mainVars, linkVars, rr_trace, category_uri, kgVars>>

SpecParse == InitParse /\ [][ParseCategory]_vars

\* C8 as stated: the bare string Category:Museums_in_Valencia parses to
\* (Museums, Valencia) and Category:RandomPage to (None, None).
ParseBareCategory ==
    parsed # <<>> =>
        /\ category_uri = U("Category:Museums_in_Valencia")
              => parsed = <<Some(U("Museums")), Some(U("Valencia"))>>
        /\ category_uri = U("Category:RandomPage") => parsed = <<None, None>>

\* the labels with their underscores replaced by spaces
Spaced ==
    [x \in {U("Museums"), U("Art_museums"), U("RandomPage"), U("Valencia"), U("New_York"),
            U("the_Isle_of_Man")} |->
        CASE x = U("Art_museums") -> U("Art museums")
          [] x = U("New_York") -> U("New York")
          [] x = U("the_Isle_of_Man") -> U("the Isle of Man")
          [] OTHER -> x]

StartsWith(s, p) == Len(s) >= Len(p) /\ SubSeq(s, 1, Len(p)) = p

\* C8 as amended: a full uri http://dbpedia.org/resource/Category:T_(in|of)_L,
\* T being the text before the first separator, parses to (T, L) with
\* underscores replaced by spaces; a string that does not start with that
\* prefix, or has no separator after it, parses to (None, None).
ParseFullUri ==
    parsed # <<>> =>
        /\ \A t \in {U("Museums"), U("Art_museums"), U("RandomPage")}, sep \in {U("_in_"), U("_of_")},
              l \in {U("Valencia"), U("New_York"), U("the_Isle_of_Man")} :
              category_uri = CATEGORY_PREFIX \o t \o sep \o l
                 => parsed = <<Some(Spaced[t]), Some(Spaced[l])>>
        /\ ~StartsWith(category_uri, CATEGORY_PREFIX) => parsed = <<None, None>>
        /\ (~Contains(U("_in_"), category_uri) /\ ~Contains(U("_of_"), category_uri))
              => parsed = <<None, None>>

\* a full uri with underscores in both parts has been parsed
ParseWitness ==
    /\ category_uri = U("http://dbpedia.org/resource/Category:Art_museums_in_New_York")
    /\ parsed = <<Some(U("Art museums")), Some(U("New York"))>>

(***************************************************************************)
(* test.py: the main pipeline's records and build_kg (SpecKG)              *)
(***************************************************************************)
RDFS_subClassOf == URIRef(U("http://www.w3.org/2000/01/rdf-schema#subClassOf"))
EXKG(name) == URIRef(U("http://example.org/kg/") \o name)
DBR(name) == URIRef(U("http://dbpedia.org/resource/") \o name)

\* lines 146-156: the records of the pairs whose category parses
RECURSIVE all_records(_)
all_records(pairs) ==
    IF pairs = <<>> THEN <<>>
    ELSE LET poi_uri == pairs[1][1]
             cat == pairs[1][2]
             p == parse_category_uri(cat)
         IN (IF Truthy(p[1]) /\ Truthy(p[2])
             THEN <<[POI |-> poi_uri, Category |-> cat,
                     Type |-> p[1][1], Location |-> p[2][1]]>>
             ELSE <<>>) \o all_records(Tail(pairs))

\* lines 73-83
get_wikidata_mapping(poi_uri) ==
    IF poi_uri \in DOMAIN wdMapping THEN wdMapping[poi_uri] ELSE <<>>

\* lines 88-101
get_wikidata_type_hierarchy(wd_uri) ==
    IF wd_uri \in DOMAIN wdHierarchy THEN wdHierarchy[wd_uri] ELSE <<>>

\* the loop with every superclass attached to the base type
RECURSIVE SubClassTriples_Star(_, _)
SubClassTriples_Star(prev_type_uri, hierarchy) ==
    IF hierarchy = <<>> THEN {}
    ELSE {<<prev_type_uri, RDFS_subClassOf, URIRef(hierarchy[1][1])>>}
         \cup SubClassTriples_Star(prev_type_uri, Tail(hierarchy))

\* lines 131-134: the triples the loop over hierarchy adds
RECURSIVE SubClassTriples(_, _)
SubClassTriples(prev_type_uri, hierarchy) ==
    IF hierarchy = <<>> THEN {}
    ELSE LET super_ref == URIRef(hierarchy[1][1])
         IN {<<prev_type_uri, RDFS_subClassOf, super_ref>>}
            \cup SubClassTriples(super_ref, Tail(hierarchy))

CurrentRow == df[row_idx]

\* lines 108-119: the next row, its POI and City triples
RowStart ==
    /\ kg_pc = "row" /\ row_idx < Len(df)
    /\ row_idx' = row_idx + 1
    /\ LET row == df[row_idx + 1]
           poi_uri == URIRef(row.POI)
           city_uri == DBR(replace(row.Location, U(" "), U("_")))
           added == {<<poi_uri, RDF_type, EXKG(U("POI"))>>,
                     <<poi_uri, EXKG(U("locatedIn")), city_uri>>,
                     <<poi_uri, EXKG(U("typeString")), Literal(row.Type, U(""))>>,
                     <<city_uri, RDF_type, EXKG(U("City"))>>}
       IN /\ g' = g \cup added
          /\ row_added' = added
    /\ kg_pc' = "mapping"
    /\ UNCHANGED <<endpointVars, mainVars, linkVars, rr_trace, parseVars,
                   wdMapping, wdHierarchy, df, kg>>

\* lines 122-124: the Wikidata mapping of the POI
MappingResult ==
    /\ kg_pc = "mapping"
    /\ LET wd == get_wikidata_mapping(CurrentRow.POI)
       IN IF wd # <<>>
          THEN LET added == {<<URIRef(CurrentRow.POI), OWL_sameAs, URIRef(wd[1])>>}
               IN /\ g' = g \cup added
                  /\ row_added' = row_added \cup added
                  /\ kg_pc' = "hierarchy"
          ELSE /\ kg_pc' = "row"
               /\ UNCHANGED <<g, row_added>>
    /\ UNCHANGED <<endpointVars, mainVars, linkVars, rr_trace, parseVars,
                   wdMapping, wdHierarchy, df, row_idx, kg>>

\* lines 127-134: the type hierarchy of the first Wikidata link
HierarchyResult ==
    /\ kg_pc = "hierarchy"
    /\ LET wd == get_wikidata_mapping(CurrentRow.POI)
           hierarchy == get_wikidata_type_hierarchy(wd[1])
           prev_type_uri == EXKG(replace(CurrentRow.Type, U(" "), U("_")))
           added == {<<URIRef(CurrentRow.POI), EXKG(U("hasType")), prev_type_uri>>,
                     <<prev_type_uri, RDF_type, EXKG(U("AttractionType"))>>}
                    \cup SubClassTriples(prev_type_uri, hierarchy)
       IN /\ g' = g \cup added
          /\ row_added' = row_added \cup added
    /\ kg_pc' = "row"
    /\ UNCHANGED <<endpointVars, mainVars, linkVars, rr_trace, parseVars,
                   wdMapping, wdHierarchy, df, row_idx, kg>>

\* lines 136 and 162-163: build_kg returns, kg is bound and serialized
FinishBuild ==
    /\ kg_pc = "row" /\ row_idx = Len(df)
    /\ kg' = [bound |-> TRUE, triples |-> g]
    /\ kg_pc' = "saved"
    /\ UNCHANGED <<endpointVars, mainVars, linkVars, rr_trace, parseVars,
                   wdMapping, wdHierarchy, df, row_idx, g, row_added>>

\* query().convert() raises at lines 82 or 100: build_kg is left by the
\* exception, kg is never bound and nothing is serialized
KGEndpointFailure ==
    /\ kg_pc \in {"mapping", "hierarchy"}
    /\ kg_pc' = "aborted"
    /\ UNCHANGED <<endpointVars, mainVars, linkVars, rr_trace, parseVars,
                   wdMapping, wdHierarchy, df, row_idx, g, row_added, kg>>

KGNext ==
    \/ RowStart \/ MappingResult \/ HierarchyResult \/ FinishBuild
    \/ KGEndpointFailure

POIs == {U("http://dbpedia.org/resource/Oceanografic"), U("http://dbpedia.org/resource/MoMA")}
KGCategories == {U("http://dbpedia.org/resource/Category:Museums_in_Valencia"),
                 U("http://dbpedia.org/resource/Category:Art_museums_in_New_York"),
                 U("http://dbpedia.org/resource/Category:RandomPage")}
Q1 == U("http://www.wikidata.org/entity/Q33506")
Q2 == U("http://www.wikidata.org/entity/Q207694")
MappingScenarios == {<<>>, <<Q1>>, <<Q2, Q1>>}
SuperA == U("http://www.wikidata.org/entity/Q1")
SuperB == U("http://www.wikidata.org/entity/Q2")
SuperC == U("http://www.wikidata.org/entity/Q3")
SuperBindings == {<<SuperA, U("institution")>>, <<SuperB, U("organization")>>,
                  <<SuperC, U("entity")>>, <<SuperA, U("establishment")>>}

InitKG ==
    /\ \E pairs \in SeqsUpTo(POIs \X KGCategories, MaxPairs) : df = all_records(pairs)
    /\ \E m \in MappingScenarios : wdMapping = [p \in POIs |-> m]
    /\ \E h \in DistinctSeqs(SuperBindings, MaxHierarchy) :
          wdHierarchy = [q \in {Q1, Q2} |-> h]
    /\ kg_pc = "row" /\ row_idx = 0 /\ g = {} /\ row_added = {}
    /\ kg = [bound |-> FALSE, triples |-> {}]
    /\ MainIdle /\ ResolveIdle /\ ParseIdle

SpecKG == InitKG /\ [][KGNext]_vars

\* the hierarchy result of the current row, and the nodes of its chain
RowHierarchy == wdHierarchy[wdMapping[CurrentRow.POI][1]]
BaseType == URIRef(U("http://example.org/kg/") \o replace(CurrentRow.Type, U(" "), U("_")))
ChainNode(i) == IF i = 0 THEN BaseType ELSE URIRef(RowHierarchy[i][1])
RowSubClassTriples == {t \in row_added : t[2] = RDFS_subClassOf}

\* C5: for a hierarchy result s1..sn and base type T the row adds exactly the
\* subclass-of triples (T, s1), (s1, s2), ..., (s(n-1), sn), and no (T, si)
\* with i > 1 that is not one of them.
ChainInOrder ==
    (kg_pc = "row" /\ row_idx >= 1 /\ wdMapping[CurrentRow.POI] # <<>>) =>
        /\ RowSubClassTriples =
              {<<ChainNode(i - 1), RDFS_subClassOf, ChainNode(i)>> :
                  i \in 1..Len(RowHierarchy)}
        /\ \A i \in 2..Len(RowHierarchy) :
              <<BaseType, RDFS_subClassOf, ChainNode(i)>> \in g
                 => \E j \in 1..Len(RowHierarchy) :
                       ChainNode(j - 1) = BaseType /\ ChainNode(j) = ChainNode(i)
        /\ row_added \subseteq g

\* superclasses A, B, C were chained and C is not attached to the base type
ChainWitness ==
    /\ kg_pc = "row" /\ row_idx >= 1 /\ wdMapping[CurrentRow.POI] # <<>>
    /\ Len(RowHierarchy) = 3
    /\ Cardinality({ChainNode(i) : i \in 0..3}) = 4
    /\ <<ChainNode(2), RDFS_subClassOf, ChainNode(3)>> \in g
    /\ <<BaseType, RDFS_subClassOf, ChainNode(3)>> \notin g

====
